---- MODULE Spec2Model ----
(***************************************************************************)
(* Running Karp-Rabin Greedy String Tiling (src/src/lib.rs).               *)
(*                                                                         *)
(* The state is the RkrGst structure of one call of run (the two inputs,   *)
(* the two mark bitmaps, the candidate list `matches`, the `result` list)  *)
(* together with the driver's search length s and the position of the      *)
(* call: about to scan, about to tile, inside the loop of mark_strings,    *)
(* returned, or panicked.  Offsets are 0-based as in the source; the       *)
(* element at offset i of a sequence q is q[i + 1].                        *)
(***************************************************************************)
EXTENDS Integers, Sequences, FiniteSets, TLC

VARIABLES pattern, text, initial_search_length, minimum_match_length,
          s, pattern_mark, text_mark, matches, result, pc, mi

vars == <<pattern, text, initial_search_length, minimum_match_length,
          s, pattern_mark, text_mark, matches, result, pc, mi>>

(***************************************************************************)
(* Bounds of the enumerated inputs.                                        *)
(***************************************************************************)
MaxPatternLen == 4
MaxTextLen == 3
MaxSearchLength == 3

\* the byte values of the enumerated inputs
Tokens == {0, 1}

(***************************************************************************)
(* Sequence access at a 0-based offset, and the bounds check Rust makes on *)
(* every index expression.                                                 *)
(***************************************************************************)
At(q, i) == q[i + 1]

InBounds(q, i) == 0 <= i /\ i < Len(q)

Max(a, b) == IF a >= b THEN a ELSE b

(***************************************************************************)
(* adler32::RollingAdler32 as lib.rs uses it: new, update, remove, hash.   *)
(* The sums are reduced modulo 65521; hash() packs them as (b << 16) | a.  *)
(* For the window sizes and byte values of this model no u32 operation of  *)
(* remove wraps.                                                           *)
(***************************************************************************)
AdlerMod == 65521

AdlerShift == 65536

HashNew == [a |-> 1, b |-> 0]

HashUpdate(h, byte) ==
    LET a2 == (h.a + byte) % AdlerMod
    IN  [a |-> a2, b |-> (a2 + h.b) % AdlerMod]

HashRemove(h, size, byte) ==
    [a |-> (h.a + AdlerMod - byte) % AdlerMod,
     b |-> ((h.b + AdlerMod - 1) + (AdlerMod - size) * byte) % AdlerMod]

HashValue(h) == h.b * AdlerShift + h.a

(***************************************************************************)
(* The key a window goes into the map under.  lib.rs takes the Adler-32    *)
(* value of the rolling hash; the two other keys stand for the window      *)
(* hashes the algorithm could be run with instead: one under which all     *)
(* windows collide, and one under which no two different windows do (the   *)
(* window itself).  A key is a sequence of numbers: the one u32 of          *)
(* Adler-32, nothing, or the tokens of the window.  The scan is written    *)
(* once, for any of the three.                                             *)
(***************************************************************************)
Adler32 == "adler32"

AllCollide == "constant"

CollisionFree == "window"

OtherHashes == {AllCollide, CollisionFree}

WindowHash(hk, q, i, sl, h) ==
    CASE hk = Adler32 -> <<HashValue(h)>>
      [] hk = AllCollide -> <<>>
      [] hk = CollisionFree -> SubSeq(q, i + 1, i + sl)

(***************************************************************************)
(* The loops of the source are recursive functions of the loop's state, so *)
(* that each iteration starts from values: the values the locals of the    *)
(* loop have at that point.                                                *)
(***************************************************************************)
HashStates == [a : Nat, b : Nat]

MatchLists == Seq([pattern_index : Nat, text_index : Nat, length : Nat])

HashKeys == Seq(Nat)

HashMaps == Seq(HashKeys \X Nat)

\* what JumpMarked, TextRun, Probe and PatternRun hand back to their callers
JumpResults == [i : Nat, fault : BOOLEAN]

TextRunResults == [i : Nat, map : HashMaps, fault : BOOLEAN]

ProbeResults == [matches : MatchLists, max_match : Nat, aborted : BOOLEAN]

PatternRunResults ==
    [i : Nat, matches : MatchLists, max_match : Nat,
     aborted : BOOLEAN, fault : BOOLEAN]

\* for j in i..(i + search_length) { hash.update(seq[j]) }
HashWindow(q, j, end, h) ==
    LET Loop[st \in [j : Nat, h : HashStates]] ==
            IF st.j >= end THEN st.h
            ELSE Loop[[j |-> st.j + 1, h |-> HashUpdate(st.h, At(q, st.j))]]
    IN  Loop[[j |-> j, h |-> h]]

(***************************************************************************)
(* "jump to first unmarked token": the for loop that moves i just past the *)
(* first marked position of mark[i .. i+search_length).  The result is the *)
(* new i, and whether an index was out of bounds.                          *)
(***************************************************************************)
JumpMarked(mark, j, end, i) ==
    LET Loop[n \in Nat] ==
            IF n >= end THEN [i |-> i, fault |-> FALSE]
            ELSE IF ~InBounds(mark, n) THEN [i |-> i, fault |-> TRUE]
            ELSE IF At(mark, n) THEN [i |-> n + 1, fault |-> FALSE]
            ELSE Loop[n + 1]
    IN  Loop[j]

\* PastEnd off by one: a window may end one position past the sequence
PastEndOffByOne(q, i, sl) == i + sl > Len(q) + 1

\* `i + search_length > len`: no window starts at i (lines 34, 51, 71, 117;
\* the `while` conditions of lines 26 and 63 are its negation)
PastEnd(q, i, sl) == i + sl > Len(q)

(***************************************************************************)
(* scan_pattern, first half: the map from the hash of every text window to *)
(* the window's start offsets.  The HashMap<u32, Vec<usize>> is the        *)
(* sequence of its insertions <<hash, offset>>; the bucket of a hash is    *)
(* the subsequence of the offsets inserted under it, in insertion order.   *)
(***************************************************************************)
\* the inner `loop` over one unmarked run of the text
TextRun(hk, txt, tmark, sl, i, h, map) ==
    LET Loop[st \in [i : Nat, h : HashStates, map : HashMaps]] ==
            IF ~InBounds(tmark, st.i + sl - 1)
            THEN [i |-> st.i, map |-> st.map, fault |-> TRUE]
            ELSE IF At(tmark, st.i + sl - 1)
            THEN [i |-> st.i, map |-> st.map, fault |-> FALSE]
            ELSE LET map2 == Append(st.map,
                                    <<WindowHash(hk, txt, st.i, sl, st.h), st.i>>)
                     i2 == st.i + 1
                 IN  IF PastEnd(txt, i2, sl)
                     THEN [i |-> i2, map |-> map2, fault |-> FALSE]
                     ELSE IF ~InBounds(txt, i2 - 1) \/ ~InBounds(txt, i2 + sl - 1)
                     THEN [i |-> i2, map |-> map2, fault |-> TRUE]
                     ELSE Loop[[i |-> i2,
                                h |-> HashUpdate(HashRemove(st.h, sl, At(txt, i2 - 1)),
                                                 At(txt, i2 + sl - 1)),
                                map |-> map2]]
    IN  Loop[[i |-> i, h |-> h, map |-> map]]

\* the outer `while (i + search_length) <= self.text.len()`
TextWalk(hk, txt, tmark, sl, i, map) ==
    LET Loop[st \in [i : Nat, map : HashMaps]] ==
            LET AfterRun[run \in TextRunResults] ==
                    IF run.fault THEN [map |-> run.map, fault |-> TRUE]
                    ELSE Loop[[i |-> run.i, map |-> run.map]]
                AfterJump[jm \in JumpResults] ==
                    IF jm.fault THEN [map |-> st.map, fault |-> TRUE]
                    ELSE IF PastEnd(txt, jm.i, sl)
                    THEN [map |-> st.map, fault |-> FALSE]
                    ELSE AfterRun[TextRun(hk, txt, tmark, sl, jm.i,
                                          HashWindow(txt, jm.i, jm.i + sl, HashNew),
                                          st.map)]
            IN  IF PastEnd(txt, st.i, sl) THEN [map |-> st.map, fault |-> FALSE]
                ELSE AfterJump[JumpMarked(tmark, st.i, st.i + sl, st.i)]
    IN  Loop[[i |-> i, map |-> map]]

BuildMapWith(hk, txt, tmark, sl) == TextWalk(hk, txt, tmark, sl, 0, <<>>)

BuildMap(txt, tmark, sl) == BuildMapWith(Adler32, txt, tmark, sl)

\* map[&hash.hash()]: the offsets stored under hv, in insertion order
Bucket(map, hv, n) ==
    LET Loop[st \in [n : Nat, bucket : Seq(Nat)]] ==
            IF st.n > Len(map) THEN st.bucket
            ELSE Loop[[n |-> st.n + 1,
                       bucket |-> IF map[st.n][1] = hv
                                  THEN Append(st.bucket, map[st.n][2])
                                  ELSE st.bucket]]
    IN  Loop[[n |-> n, bucket |-> <<>>]]

(***************************************************************************)
(* scan_pattern, second half.  Extend is the while loop that verifies a    *)
(* collision and extends it forward, token by token, while both positions  *)
(* are in bounds, equal and unmarked.                                      *)
(***************************************************************************)
\* ExtendCond without the comparison of the two tokens
ExtendCondNoCompare(pat, txt, pmark, tmark, pattern_index, text_index, k) ==
    /\ text_index + k < Len(txt)
    /\ pattern_index + k < Len(pat)
    /\ ~At(tmark, text_index + k)
    /\ ~At(pmark, pattern_index + k)

\* ExtendCond without the two tests of the bitmaps
ExtendCondIgnoresMarks(pat, txt, pmark, tmark, pattern_index, text_index, k) ==
    /\ text_index + k < Len(txt)
    /\ pattern_index + k < Len(pat)
    /\ At(txt, text_index + k) = At(pat, pattern_index + k)

ExtendCond(pat, txt, pmark, tmark, pattern_index, text_index, k) ==
    /\ text_index + k < Len(txt)
    /\ pattern_index + k < Len(pat)
    /\ At(txt, text_index + k) = At(pat, pattern_index + k)
    /\ ~At(tmark, text_index + k)
    /\ ~At(pmark, pattern_index + k)

Extend(pat, txt, pmark, tmark, pattern_index, text_index, k) ==
    LET Loop[n \in Nat] ==
            IF ExtendCond(pat, txt, pmark, tmark, pattern_index, text_index, n)
            THEN Loop[n + 1]
            ELSE n
    IN  Loop[k]

\* Match { pattern_index, text_index, length }
Match(pattern_index, text_index, length) ==
    [pattern_index |-> pattern_index, text_index |-> text_index, length |-> length]

\* `if k > 2 * search_length { return k; }`
EarlyExit(k, sl) == k > 2 * sl

\* IsCandidate taking the equal hashes for a match, whatever was counted
IsCandidateTrustsHash(k, sl) == TRUE

\* IsCandidate leaving out the extensions of exactly search_length tokens
IsCandidateLonger(k, sl) == k > sl

\* `if k >= search_length { self.matches.push(..); max_match = max(max_match, k) }`
IsCandidate(k, sl) == k >= sl

\* `for text_index in &map[&hash.hash()]`: acc is [matches, max_match];
\* the result adds `aborted` and, when aborted, max_match is the returned k.
Probe(pat, txt, pmark, tmark, sl, i, bucket, n, acc) ==
    LET Loop[st \in [n : Nat, matches : MatchLists, max_match : Nat]] ==
            LET Extended[k \in Nat] ==
                    IF EarlyExit(k, sl)
                    THEN [matches |-> st.matches, max_match |-> k, aborted |-> TRUE]
                    ELSE IF IsCandidate(k, sl)
                    THEN Loop[[n |-> st.n + 1,
                               matches |-> Append(st.matches,
                                                  Match(i, bucket[st.n], k)),
                               max_match |-> Max(st.max_match, k)]]
                    ELSE Loop[[st EXCEPT !.n = st.n + 1]]
            IN  IF st.n > Len(bucket)
                THEN [matches |-> st.matches, max_match |-> st.max_match,
                      aborted |-> FALSE]
                ELSE Extended[Extend(pat, txt, pmark, tmark, i, bucket[st.n], 0)]
    IN  Loop[[n |-> n, matches |-> acc.matches, max_match |-> acc.max_match]]

\* the inner `loop` over one unmarked run of the pattern
PatternRun(hk, pat, txt, pmark, tmark, sl, i, h, map, acc) ==
    LET Loop[st \in [i : Nat, h : HashStates,
                     matches : MatchLists, max_match : Nat]] ==
            LET out == [i |-> st.i, matches |-> st.matches,
                        max_match |-> st.max_match,
                        aborted |-> FALSE, fault |-> FALSE]
                i2 == st.i + 1
                Probed[pr \in ProbeResults] ==
                    IF pr.aborted
                    THEN [i |-> st.i, matches |-> pr.matches,
                          max_match |-> pr.max_match,
                          aborted |-> TRUE, fault |-> FALSE]
                    ELSE IF PastEnd(pat, i2, sl)
                    THEN [i |-> i2, matches |-> pr.matches,
                          max_match |-> pr.max_match,
                          aborted |-> FALSE, fault |-> FALSE]
                    ELSE IF ~InBounds(pat, i2 - 1) \/ ~InBounds(pat, i2 + sl - 1)
                    THEN [i |-> i2, matches |-> pr.matches,
                          max_match |-> pr.max_match,
                          aborted |-> FALSE, fault |-> TRUE]
                    ELSE Loop[[i |-> i2,
                               h |-> HashUpdate(HashRemove(st.h, sl, At(pat, i2 - 1)),
                                                At(pat, i2 + sl - 1)),
                               matches |-> pr.matches,
                               max_match |-> pr.max_match]]
            IN  IF ~InBounds(pmark, st.i + sl - 1) THEN [out EXCEPT !.fault = TRUE]
                ELSE IF At(pmark, st.i + sl - 1) THEN out
                ELSE Probed[Probe(pat, txt, pmark, tmark, sl, st.i,
                                  Bucket(map,
                                         WindowHash(hk, pat, st.i, sl, st.h), 1),
                                  1,
                                  [matches |-> st.matches,
                                   max_match |-> st.max_match])]
    IN  Loop[[i |-> i, h |-> h, matches |-> acc.matches, max_match |-> acc.max_match]]

\* the outer `while (i + search_length) <= self.pattern.len()`
PatternWalk(hk, pat, txt, pmark, tmark, sl, i, map, acc) ==
    LET Loop[st \in [i : Nat, matches : MatchLists, max_match : Nat]] ==
            LET stop == [matches |-> st.matches, lmax |-> st.max_match,
                         aborted |-> FALSE, fault |-> FALSE]
                AfterRun[run \in PatternRunResults] ==
                    IF run.fault \/ run.aborted
                    THEN [matches |-> run.matches, lmax |-> run.max_match,
                          aborted |-> run.aborted, fault |-> run.fault]
                    ELSE Loop[[i |-> run.i, matches |-> run.matches,
                               max_match |-> run.max_match]]
                AfterJump[jm \in JumpResults] ==
                    IF jm.fault THEN [stop EXCEPT !.fault = TRUE]
                    ELSE IF PastEnd(pat, jm.i, sl) THEN stop
                    ELSE AfterRun[PatternRun(hk, pat, txt, pmark, tmark, sl, jm.i,
                                      HashWindow(pat, jm.i, jm.i + sl, HashNew),
                                      map,
                                      [matches |-> st.matches,
                                       max_match |-> st.max_match])]
            IN  IF PastEnd(pat, st.i, sl) THEN stop
                ELSE AfterJump[JumpMarked(pmark, st.i, st.i + sl, st.i)]
    IN  Loop[[i |-> i, matches |-> acc.matches, max_match |-> acc.max_match]]

(***************************************************************************)
(* scan_pattern(search_length): the candidates it leaves in self.matches,  *)
(* the value it returns (lmax), whether it returned from the early exit,   *)
(* and whether it panicked on an index.  A panic while the map is built    *)
(* comes before self.matches.clear().                                      *)
(***************************************************************************)
ScanPatternWith(hk, pat, txt, pmark, tmark, old, sl) ==
    LET Search[built \in [map : HashMaps, fault : BOOLEAN]] ==
            IF built.fault
            THEN [matches |-> old, lmax |-> 0, aborted |-> FALSE, fault |-> TRUE]
            ELSE PatternWalk(hk, pat, txt, pmark, tmark, sl, 0, built.map,
                             [matches |-> <<>>, max_match |-> 0])
    IN  Search[BuildMapWith(hk, txt, tmark, sl)]

\* scan_pattern as lib.rs has it, with RollingAdler32
ScanPattern(pat, txt, pmark, tmark, old, sl) ==
    ScanPatternWith(Adler32, pat, txt, pmark, tmark, old, sl)

(***************************************************************************)
(* mark_strings.  The sort is Rust's stable sort_by on length, descending: *)
(* candidates of equal length keep their order.                            *)
(***************************************************************************)
\* SortsBefore for a sort by length, ascending
SortsBeforeAscending(a, b) == a.length <= b.length

\* SortsBefore for a sort that puts a later candidate of equal length first
SortsBeforeUnstable(a, b) == a.length > b.length

\* the comparator |a, b| b.length.cmp(&a.length): a may stay in front of b
SortsBefore(a, b) == a.length >= b.length

\* m goes behind the last candidate that may stay in front of it
InsertSorted(sorted, m) ==
    LET Loop[n \in Nat] ==
            IF n > Len(sorted) \/ ~SortsBefore(sorted[n], m)
            THEN SubSeq(sorted, 1, n - 1) \o <<m>> \o SubSeq(sorted, n, Len(sorted))
            ELSE Loop[n + 1]
    IN  Loop[1]

SortByLength(ms, n) ==
    LET Loop[st \in [n : Nat, sorted : MatchLists]] ==
            IF st.n > n THEN st.sorted
            ELSE Loop[[n |-> st.n + 1, sorted |-> InsertSorted(st.sorted, ms[st.n])]]
    IN  Loop[[n |-> 1, sorted |-> <<>>]]

\* Unmarked looking at the text bitmap only
UnmarkedTextOnly(m, pmark, tmark) ==
    \A i \in 0..(m.length - 1) : ~At(tmark, m.text_index + i)

\* the flag `unmarked` after the loop over 0..m.length
Unmarked(m, pmark, tmark) ==
    \A i \in 0..(m.length - 1) :
        ~(At(tmark, m.text_index + i) \/ At(pmark, m.pattern_index + i))

\* SetMarks leaving the last position of the span unmarked
SetMarksShort(mark, index, length) ==
    [n \in 1..Len(mark) |->
        IF index + 1 <= n /\ n < index + length THEN TRUE ELSE mark[n]]

\* for i in 0..m.length { mark.set(index + i, true) }
SetMarks(mark, index, length) ==
    [n \in 1..Len(mark) |->
        IF index + 1 <= n /\ n <= index + length THEN TRUE ELSE mark[n]]

(***************************************************************************)
(* Inputs of run: every pattern and text over Tokens up to the bounds with *)
(* every pair of search lengths (0 included: the parameters are usize),    *)
(* the two calls of the tests of lib.rs, byte for byte, and a few longer   *)
(* calls that reach passes the enumerated inputs are too short for.        *)
(***************************************************************************)
SeqsUpTo(S, n) == UNION {[1..k -> S] : k \in 0..n}

Input(p, t, isl, mml) ==
    [pattern |-> p, text |-> t,
     initial_search_length |-> isl, minimum_match_length |-> mml]

EnumeratedInputs ==
    {Input(p, t, isl, mml) :
        p \in SeqsUpTo(Tokens, MaxPatternLen), t \in SeqsUpTo(Tokens, MaxTextLen),
        isl \in 0..MaxSearchLength, mml \in 0..MaxSearchLength}

\* "lower", "yellow", "lowerlow", "yellow lowlow"
Lower == <<108, 111, 119, 101, 114>>

Yellow == <<121, 101, 108, 108, 111, 119>>

LowerLow == <<108, 111, 119, 101, 114, 108, 111, 119>>

YellowLowLow == <<121, 101, 108, 108, 111, 119, 32, 108, 111, 119, 108, 111, 119>>

SimpleMatch == Input(Lower, Yellow, 3, 2)

DuplicateMatch == Input(LowerLow, YellowLowLow, 3, 2)

TestInputs == {SimpleMatch, DuplicateMatch}

\* a call whose first tile covers text[0 .. 3) and leaves text[3] free for
\* the next scan pass, at s = 2
OccludedWindow == Input(<<0, 0, 0>>, <<0, 0, 0, 0>>, 3, 2)

\* a call whose pass at s = 2 tiles (0, 3, 4) and rejects (4, 0, 4), so that
\* the pass at s = 1 meets the free rest (4, 0, 3) of the rejected candidate
RejectedRest == Input(<<0, 0, 0, 0, 0, 0, 1, 0>>, <<0, 0, 1, 0, 0, 0, 0>>, 2, 1)

\* a call whose first pass hashes two different windows, 0 1 1 0 and
\* 1 0 0 1, to the same Adler-32 value
AdlerCollision == Input(<<0, 1, 1, 0>>, <<1, 0, 0, 1>>, 4, 1)

ScenarioInputs == {OccludedWindow, RejectedRest, AdlerCollision}

Inputs == EnumeratedInputs \cup TestInputs \cup ScenarioInputs

\* bitvec![0; len]
NoMarks(q) == [n \in 1..Len(q) |-> FALSE]

\* the state of run before its loop: lines 158-166
Init ==
    \E in \in Inputs :
        /\ pattern = in.pattern
        /\ text = in.text
        /\ initial_search_length = in.initial_search_length
        /\ minimum_match_length = in.minimum_match_length
        /\ s = in.initial_search_length
        /\ pattern_mark = NoMarks(in.pattern)
        /\ text_mark = NoMarks(in.text)
        /\ matches = <<>>
        /\ result = <<>>
        /\ pc = "scan"
        /\ mi = 0

\* let lmax = params.scan_pattern(s), with what the call leaves in self.matches
Scanned == ScanPattern(pattern, text, pattern_mark, text_mark, matches, s)

\* the same call with another window hash in the place of RollingAdler32
ScannedWith(hk) ==
    ScanPatternWith(hk, pattern, text, pattern_mark, text_mark, matches, s)

\* scan_pattern panics on an index: the call of run ends there
ScanFault ==
    /\ pc = "scan"
    /\ Scanned.fault
    /\ pc' = "fault"
    /\ UNCHANGED <<pattern, text, initial_search_length, minimum_match_length,
                   s, pattern_mark, text_mark, matches, result, mi>>

\* ScanGrow without the assignment s = lmax
ScanGrowKeepsLength ==
    /\ pc = "scan"
    /\ \E scanned \in {Scanned} :
           /\ ~scanned.fault
           /\ scanned.lmax > 2 * s
           /\ matches' = scanned.matches
    /\ pc' = "scan"
    /\ UNCHANGED <<pattern, text, initial_search_length, minimum_match_length,
                   s, pattern_mark, text_mark, result, mi>>

\* lmax > 2 * s: s = lmax, and the loop scans again
ScanGrow ==
    /\ pc = "scan"
    /\ \E scanned \in {Scanned} :
           /\ ~scanned.fault
           /\ scanned.lmax > 2 * s
           /\ s' = scanned.lmax
           /\ matches' = scanned.matches
    /\ pc' = "scan"
    /\ UNCHANGED <<pattern, text, initial_search_length, minimum_match_length,
                   pattern_mark, text_mark, result, mi>>

\* ScanTile without the test of lmax: every pass goes on to mark_strings
ScanTileAlways ==
    /\ pc = "scan"
    /\ \E scanned \in {Scanned} :
           /\ ~scanned.fault
           /\ matches' = scanned.matches
    /\ pc' = "tile"
    /\ UNCHANGED <<pattern, text, initial_search_length, minimum_match_length,
                   s, pattern_mark, text_mark, result, mi>>

\* lmax <= 2 * s: the loop goes on to mark_strings
ScanTile ==
    /\ pc = "scan"
    /\ \E scanned \in {Scanned} :
           /\ ~scanned.fault
           /\ ~(scanned.lmax > 2 * s)
           /\ matches' = scanned.matches
    /\ pc' = "tile"
    /\ UNCHANGED <<pattern, text, initial_search_length, minimum_match_length,
                   s, pattern_mark, text_mark, result, mi>>

\* mark_strings, line 130: the sort, before the loop over the candidates
MarkSort ==
    /\ pc = "tile"
    /\ matches' = SortByLength(matches, Len(matches))
    /\ mi' = 0
    /\ pc' = "mark"
    /\ UNCHANGED <<pattern, text, initial_search_length, minimum_match_length,
                   s, pattern_mark, text_mark, result>>

\* one iteration of `for m in &self.matches` with unmarked = true
MarkAccept ==
    /\ pc = "mark"
    /\ mi < Len(matches)
    /\ LET m == matches[mi + 1]
       IN  /\ Unmarked(m, pattern_mark, text_mark)
           /\ result' = Append(result, m)
           /\ text_mark' = SetMarks(text_mark, m.text_index, m.length)
           /\ pattern_mark' = SetMarks(pattern_mark, m.pattern_index, m.length)
    /\ mi' = mi + 1
    /\ UNCHANGED <<pattern, text, initial_search_length, minimum_match_length,
                   s, matches, pc>>

\* one iteration of `for m in &self.matches` with unmarked = false
MarkReject ==
    /\ pc = "mark"
    /\ mi < Len(matches)
    /\ ~Unmarked(matches[mi + 1], pattern_mark, text_mark)
    /\ mi' = mi + 1
    /\ UNCHANGED <<pattern, text, initial_search_length, minimum_match_length,
                   s, pattern_mark, text_mark, matches, result, pc>>

\* the end of mark_strings (self.matches.clear()) and the driver's choice
\* of the next search length, lines 178-188
MarkDone == pc = "mark" /\ mi = Len(matches)

\* ShrinkHalf with the factor 2 on the wrong side of the comparison
ShrinkHalfSwapped ==
    /\ pc = "mark" /\ mi = Len(matches)
    /\ 2 * s > minimum_match_length
    /\ s' = s \div 2
    /\ matches' = <<>>
    /\ mi' = 0
    /\ pc' = "scan"
    /\ UNCHANGED <<pattern, text, initial_search_length, minimum_match_length,
                   pattern_mark, text_mark, result>>

\* ShrinkHalf halving whenever s is above the minimum
ShrinkHalfLoose ==
    /\ pc = "mark" /\ mi = Len(matches)
    /\ s > minimum_match_length
    /\ s' = s \div 2
    /\ matches' = <<>>
    /\ mi' = 0
    /\ pc' = "scan"
    /\ UNCHANGED <<pattern, text, initial_search_length, minimum_match_length,
                   pattern_mark, text_mark, result>>

ShrinkHalf ==
    /\ MarkDone
    /\ s > 2 * minimum_match_length
    /\ s' = s \div 2
    /\ matches' = <<>>
    /\ mi' = 0
    /\ pc' = "scan"
    /\ UNCHANGED <<pattern, text, initial_search_length, minimum_match_length,
                   pattern_mark, text_mark, result>>

ShrinkToMinimum ==
    /\ MarkDone
    /\ ~(s > 2 * minimum_match_length)
    /\ s > minimum_match_length
    /\ s' = minimum_match_length
    /\ matches' = <<>>
    /\ mi' = 0
    /\ pc' = "scan"
    /\ UNCHANGED <<pattern, text, initial_search_length, minimum_match_length,
                   pattern_mark, text_mark, result>>

Stop ==
    /\ MarkDone
    /\ ~(s > 2 * minimum_match_length)
    /\ ~(s > minimum_match_length)
    /\ matches' = <<>>
    /\ mi' = 0
    /\ pc' = "done"
    /\ UNCHANGED <<pattern, text, initial_search_length, minimum_match_length,
                   s, pattern_mark, text_mark, result>>

Next ==
    \/ ScanFault
    \/ ScanGrow
    \/ ScanTile
    \/ MarkSort
    \/ MarkAccept
    \/ MarkReject
    \/ ShrinkHalf
    \/ ShrinkToMinimum
    \/ Stop

Spec == Init /\ [][Next]_vars

(***************************************************************************)
(* The same runs, for termination.  The caller is about to call run, and   *)
(* Call enters it with an input; from there run is one synchronous call,   *)
(* so every step of it that can be taken is taken.                         *)
(***************************************************************************)
NotCalled ==
    /\ pc = "call"
    /\ pattern = <<>>
    /\ text = <<>>
    /\ initial_search_length = 0
    /\ minimum_match_length = 0
    /\ s = 0
    /\ pattern_mark = <<>>
    /\ text_mark = <<>>
    /\ matches = <<>>
    /\ result = <<>>
    /\ mi = 0

Call ==
    /\ pc = "call"
    /\ \E in \in Inputs :
           /\ pattern' = in.pattern
           /\ text' = in.text
           /\ initial_search_length' = in.initial_search_length
           /\ minimum_match_length' = in.minimum_match_length
           /\ s' = in.initial_search_length
           /\ pattern_mark' = NoMarks(in.pattern)
           /\ text_mark' = NoMarks(in.text)
    /\ matches' = <<>>
    /\ result' = <<>>
    /\ pc' = "scan"
    /\ mi' = 0

CallNext == Call \/ Next

FairSpec == NotCalled /\ [][CallNext]_vars /\ WF_vars(Next)

(***************************************************************************)
(* Properties.                                                             *)
(***************************************************************************)
Positive == initial_search_length > 0 /\ minimum_match_length > 0

Returned == pc = "done"

PatternSpan(m) == m.pattern_index .. (m.pattern_index + m.length - 1)

TextSpan(m) == m.text_index .. (m.text_index + m.length - 1)

\* C1: with positive parameters, any two distinct matches of the returned
\* list have disjoint pattern spans and disjoint text spans.
C1_NonOverlap ==
    (Returned /\ Positive) =>
        \A a, b \in 1..Len(result) :
            a # b => /\ PatternSpan(result[a]) \cap PatternSpan(result[b]) = {}
                     /\ TextSpan(result[a]) \cap TextSpan(result[b]) = {}

C1_Witness ==
    /\ Returned
    /\ Positive
    /\ Len(result) >= 2

\* C2: with positive parameters, every returned match (p, t, l) has
\* pattern[p + d] = text[t + d] for every 0 <= d < l.
C2_SpansEqual ==
    (Returned /\ Positive) =>
        \A n \in 1..Len(result) :
            \A d \in 0..(result[n].length - 1) :
                /\ InBounds(pattern, result[n].pattern_index + d)
                /\ InBounds(text, result[n].text_index + d)
                /\ At(pattern, result[n].pattern_index + d)
                       = At(text, result[n].text_index + d)

C2_Witness ==
    /\ Returned
    /\ Positive
    /\ \E n \in 1..Len(result) : result[n].length >= 3

InsideInputs(m) ==
    /\ m.length > 0
    /\ m.pattern_index >= 0
    /\ m.text_index >= 0
    /\ m.pattern_index + m.length <= Len(pattern)
    /\ m.text_index + m.length <= Len(text)

\* C3: with positive parameters, every match of the result has length > 0
\* and lies inside the pattern and the text, and the run indexes no bitmap
\* or sequence out of bounds: no scan pass panics, and every candidate that
\* mark_strings indexes the bitmaps with lies inside them.
C3_InBounds ==
    Positive =>
        /\ pc # "fault"
        /\ pc = "scan" => ~Scanned.fault
        /\ pc \in {"tile", "mark"} =>
               \A n \in 1..Len(matches) : InsideInputs(matches[n])
        /\ Len(pattern_mark) = Len(pattern) /\ Len(text_mark) = Len(text)
        /\ \A n \in 1..Len(result) : InsideInputs(result[n])

C3_Witness ==
    /\ Returned
    /\ Positive
    /\ \E n \in 1..Len(result) :
           /\ result[n].pattern_index + result[n].length = Len(pattern)
           /\ result[n].text_index + result[n].length = Len(text)
           /\ result[n].pattern_index # result[n].text_index

LongEnough == \A n \in 1..Len(result) : result[n].length >= minimum_match_length

\* C4 as claimed: for every pair of positive parameters, whichever is the
\* larger, every returned match has length >= minimum_match_length.
C4_MinimumLength_AnyParameters == (Returned /\ Positive) => LongEnough

\* C4, amended: for positive parameters with minimum_match_length <=
\* initial_search_length, every returned match has length >=
\* minimum_match_length.
C4_MinimumLength ==
    (Returned /\ Positive /\ minimum_match_length <= initial_search_length)
        => LongEnough

C4_Witness ==
    /\ Returned
    /\ minimum_match_length >= 2
    /\ minimum_match_length < initial_search_length
    /\ result # <<>>

\* C5: with positive parameters the driver loop terminates: run returns,
\* whatever grow and shrink steps the scans lead to.
C5_Terminates == (pc = "scan" /\ Positive) ~> Returned

C5_Witness ==
    /\ Returned
    /\ Positive
    /\ s > initial_search_length
    /\ result # <<>>

\* pattern[i .. i+n) and text[j .. j+n) are equal and unmarked
FreeTile(i, j, n) ==
    \A d \in 0..(n - 1) :
        /\ At(pattern, i + d) = At(text, j + d)
        /\ ~At(pattern_mark, i + d)
        /\ ~At(text_mark, j + d)

\* C6: when run returns, with minimum_match_length <= initial_search_length,
\* no pair of offsets (i, j) is left whose windows of minimum_match_length
\* tokens are equal and unmarked in both sequences.
C6_NoFurtherTile ==
    (Returned /\ Positive /\ minimum_match_length <= initial_search_length) =>
        ~ \E i \in 0..(Len(pattern) - minimum_match_length),
             j \in 0..(Len(text) - minimum_match_length) :
               FreeTile(i, j, minimum_match_length)

\* the candidate the loop of mark_strings is about to accept
Accepting ==
    /\ pc = "mark"
    /\ mi < Len(matches)
    /\ Unmarked(matches[mi + 1], pattern_mark, text_mark)

MaximalForward(m) ==
    \/ m.pattern_index + m.length = Len(pattern)
    \/ m.text_index + m.length = Len(text)
    \/ At(pattern, m.pattern_index + m.length) # At(text, m.text_index + m.length)
    \/ At(pattern_mark, m.pattern_index + m.length)
    \/ At(text_mark, m.text_index + m.length)

MaximalBackward(m) ==
    \/ m.pattern_index = 0
    \/ m.text_index = 0
    \/ At(pattern, m.pattern_index - 1) # At(text, m.text_index - 1)
    \/ At(pattern_mark, m.pattern_index - 1)
    \/ At(text_mark, m.text_index - 1)

\* C7: at the moment the tiler accepts a match it is maximal: it cannot be
\* extended by one position forward, nor by one position backward, without
\* leaving a sequence, meeting unequal tokens or meeting a marked position.
C7_MaximalWhenAccepted ==
    Accepting => /\ MaximalForward(matches[mi + 1])
                 /\ MaximalBackward(matches[mi + 1])

\* an accepted match whose tokens go on matching backward: only a mark
\* left by an earlier match stops it there
C7_Witness ==
    /\ Accepting
    /\ LET m == matches[mi + 1]
       IN  /\ m.pattern_index > 0
           /\ m.text_index > 0
           /\ At(pattern, m.pattern_index - 1) = At(text, m.text_index - 1)

\* a comes before b in a tiling pass: longer first, then discovery order
TilingOrder(a, b) ==
    \/ a.length > b.length
    \/ a.length = b.length /\ a.pattern_index < b.pattern_index
    \/ /\ a.length = b.length
       /\ a.pattern_index = b.pattern_index
       /\ a.text_index < b.text_index

CandidatesInTilingOrder ==
    pc = "mark" =>
        \A a, b \in 1..Len(matches) : a < b => TilingOrder(matches[a], matches[b])

\* the result grows only at its end, by the candidate under consideration
AppendsAccepted ==
    \/ result' = result
    \/ pc = "mark" /\ mi < Len(matches) /\ result' = Append(result, matches[mi + 1])

DuplicateMatchResult ==
    (Returned /\ pattern = LowerLow /\ text = YellowLowLow
        /\ initial_search_length = 3 /\ minimum_match_length = 2)
    => result = <<Match(0, 3, 3), Match(5, 7, 3)>>

\* C8: a tiling pass considers the candidates by non-increasing length and,
\* at equal length, by ascending pattern offset and then ascending text
\* offset; the result keeps the matches in the order of their acceptance;
\* so the two "low" of "lowerlow" get the first two "low" of
\* "yellow lowlow", in pattern order.
C8_TilingOrder ==
    /\ [](CandidatesInTilingOrder /\ DuplicateMatchResult)
    /\ [][AppendsAccepted]_vars

\* equal-length candidates competing for the same text: the tie decides
C8_Witness ==
    /\ pc = "mark"
    /\ mi = 1
    /\ Len(result) = 1
    /\ \E b \in 2..Len(matches) :
           /\ matches[b].length = matches[1].length
           /\ matches[b].pattern_index > matches[1].pattern_index
           /\ matches[b].text_index = matches[1].text_index

TooLongMinimum ==
    minimum_match_length > Len(pattern) \/ minimum_match_length > Len(text)

\* C9 as claimed: if minimum_match_length is larger than the pattern or the
\* text, run returns an empty result for every positive
\* initial_search_length.
C9_EmptyResult_AnyInitialLength ==
    (Returned /\ initial_search_length > 0 /\ TooLongMinimum) => result = <<>>

\* C9, amended: if minimum_match_length is larger than the pattern or the
\* text, run returns an empty result for every initial_search_length >=
\* minimum_match_length.
C9_EmptyResult ==
    (Returned /\ TooLongMinimum /\ minimum_match_length <= initial_search_length)
        => result = <<>>

\* the two inputs share a token, and the minimum rules it out
C9_Witness ==
    /\ Returned
    /\ TooLongMinimum
    /\ minimum_match_length <= initial_search_length
    /\ \E i \in 1..Len(pattern), j \in 1..Len(text) : pattern[i] = text[j]
    /\ result = <<>>

NothingMarked ==
    /\ \A n \in 1..Len(pattern_mark) : ~pattern_mark[n]
    /\ \A n \in 1..Len(text_mark) : ~text_mark[n]

\* C10: a call with initial_search_length = 0 or minimum_match_length = 0
\* is rejected before any work: no scan pass is made, no position is
\* marked, and the call does not end in a panic part-way through.
C10_ZeroRejected ==
    (initial_search_length = 0 \/ minimum_match_length = 0) =>
        /\ pc \notin {"tile", "mark", "fault"}
        /\ NothingMarked
        /\ result = <<>>

\* the start offsets the first half of scan_pattern pushes into the map
RecordedOffsets(map) == {map[n][2] : n \in 1..Len(map)}

WindowUnmarked(mark, i, sl) == \A d \in 0..(sl - 1) : ~At(mark, i + d)

\* C11: in a scan pass at search length s, every text start offset i that
\* the first half of scan_pattern records in the hash map has its whole
\* window text[i .. i+s) unmarked.
C11_RecordedWindowsUnmarked ==
    pc = "scan" =>
        LET built == BuildMap(text, text_mark, s)
        IN  ~built.fault =>
                \A i \in RecordedOffsets(built.map) : WindowUnmarked(text_mark, i, s)

\* a scan pass that comes after a tiling pass: the result holds a match
AfterTiling == pc = "scan" /\ result # <<>>

\* C12 as claimed: once a tiling pass has been made the search length never
\* increases again, every later scan pass at s returning lmax <= 2*s.
C12_NeverGrowsAfterTiling == [][AfterTiling => s' <= s]_vars

\* pattern[i .. i+d) and text[j .. j+d) are in bounds, equal and unmarked
CommonFree(i, j, d) ==
    \A e \in 0..(d - 1) :
        /\ InBounds(pattern, i + e)
        /\ InBounds(text, j + e)
        /\ At(pattern, i + e) = At(text, j + e)
        /\ ~At(pattern_mark, i + e)
        /\ ~At(text_mark, j + e)

\* the longest d with CommonFree(i, j, d)
MaximalExtension(i, j) ==
    CHOOSE d \in 0..Len(pattern) : CommonFree(i, j, d) /\ ~CommonFree(i, j, d + 1)

\* the pairs of offsets whose maximal extension is between sl and 2*sl
ReferenceSet(sl) ==
    LET pairs == (0..(Len(pattern) - 1)) \X (0..(Len(text) - 1))
        ext == [ij \in pairs |-> MaximalExtension(ij[1], ij[2])]
    IN  {Match(ij[1], ij[2], ext[ij]) :
            ij \in {p \in pairs : sl <= ext[p] /\ ext[p] <= 2 * sl}}

LongestOf(ms) ==
    IF ms = {} THEN 0
    ELSE (CHOOSE m \in ms : \A o \in ms : o.length <= m.length).length

\* C13: a scan pass at search length s that is not aborted leaves exactly
\* one candidate (i, j, k) for every pair of offsets whose maximal forward
\* extension k has s <= k <= 2*s, none twice and no other, and returns the
\* largest such k, or 0 when there is none.
C13_ScanIsReference ==
    pc = "scan" =>
        LET scanned == Scanned
            reference == ReferenceSet(s)
        IN  (~scanned.fault /\ ~scanned.aborted) =>
                /\ {scanned.matches[n] : n \in 1..Len(scanned.matches)} = reference
                /\ Len(scanned.matches) = Cardinality(reference)
                /\ scanned.lmax = LongestOf(reference)

\* a completed pass over partly marked inputs that finds two candidates or
\* more and passes over a pair of equal tokens whose extension is too
\* short, or stopped at once by a mark
C13_Witness ==
    /\ pc = "scan"
    /\ ~Scanned.fault
    /\ ~Scanned.aborted
    /\ result # <<>>
    /\ Len(Scanned.matches) >= 2
    /\ \E i \in 0..(Len(pattern) - 1), j \in 0..(Len(text) - 1) :
           At(pattern, i) = At(text, j) /\ MaximalExtension(i, j) < s

\* a scan pass returns more than 2*s exactly when it left by the early exit
AbortedIffTooLong ==
    pc = "scan" =>
        LET scanned == Scanned
        IN  ~scanned.fault => (scanned.aborted <=> scanned.lmax > 2 * s)

\* what mark_strings is handed is what a scan pass at s over the present
\* marks leaves, and that pass runs to its end
TilesCompletedScan ==
    pc = "tile" =>
        LET scanned == Scanned
        IN  /\ ~scanned.fault
            /\ ~scanned.aborted
            /\ matches = scanned.matches

\* the sort and the loop of mark_strings keep the candidates and s
TilerKeepsCandidates ==
    (pc \in {"tile", "mark"} /\ pc' = "mark") =>
        /\ s' = s
        /\ Len(matches') = Len(matches)
        /\ \A m \in {matches[n] : n \in 1..Len(matches)} :
               Cardinality({n \in 1..Len(matches) : matches[n] = m})
                   = Cardinality({n \in 1..Len(matches') : matches'[n] = m})

\* C14: a scan pass returns lmax > 2*s exactly when the early exit aborted
\* it, and the candidates of an aborted pass are never tiled: the
\* candidates of a tiling pass are those of a completed scan at the same s
\* in the mark state the tiling pass starts from.
C14_OnlyCompletedScansTiled ==
    /\ [](AbortedIffTooLong /\ TilesCompletedScan)
    /\ [][TilerKeepsCandidates]_vars

\* the candidates an aborted pass gathered before its early exit are still
\* in the list when the driver scans again at the longer length
C14_Witness ==
    /\ pc = "scan"
    /\ Positive
    /\ s > 2 * initial_search_length
    /\ matches # <<>>

\* C15: the result of run does not depend on the window hash.  run reads
\* the hash through scan_pattern alone, so it is enough that in every
\* state a scan pass starts from, the pass under a hash where all windows
\* collide and the pass under a collision-free hash leave the same
\* candidates in the same order, return the same lmax and end the same
\* way as the pass under Adler-32: the three runs then go through the same
\* states to the same result list.
C15_HashIndependent ==
    pc = "scan" =>
        LET scanned == Scanned
        IN  \A hk \in OtherHashes : ScannedWith(hk) = scanned

AdlerOf(q, i, sl) == HashValue(HashWindow(q, i, i + sl, HashNew))

\* a pass in which a pattern window and a different text window had the
\* same Adler-32 value has run to its end, and has left no candidate
C15_Witness ==
    /\ pc = "tile"
    /\ Positive
    /\ matches = <<>>
    /\ \E i \in 0..(Len(pattern) - s), j \in 0..(Len(text) - s) :
           /\ SubSeq(pattern, i + 1, i + s) # SubSeq(text, j + 1, j + s)
           /\ AdlerOf(pattern, i, s) = AdlerOf(text, j, s)

\* the offsets a bitmap has marked
MarkedPositions(mark) == {i \in 0..(Len(mark) - 1) : At(mark, i)}

\* the marked positions are the spans of the matches of the result
MarksAreResultSpans ==
    /\ MarkedPositions(pattern_mark)
           = UNION {PatternSpan(result[n]) : n \in 1..Len(result)}
    /\ MarkedPositions(text_mark)
           = UNION {TextSpan(result[n]) : n \in 1..Len(result)}

\* no step shortens a bitmap or clears a mark
MarksStay ==
    /\ Len(pattern_mark') = Len(pattern_mark)
    /\ Len(text_mark') = Len(text_mark)
    /\ MarkedPositions(pattern_mark) \subseteq MarkedPositions(pattern_mark')
    /\ MarkedPositions(text_mark) \subseteq MarkedPositions(text_mark')

\* only the step that accepts a candidate touches the bitmaps or the result
OnlyAcceptChanges ==
    ~Accepting => UNCHANGED <<pattern_mark, text_mark, result>>

\* C16: in every state of a run the marked pattern positions are exactly
\* the union of the pattern spans of the matches of the result, and the
\* marked text positions the union of their text spans; no step unmarks a
\* position; scan passes and rejected candidates change neither the
\* bitmaps nor the result.
C16_MarksFollowResult ==
    /\ []MarksAreResultSpans
    /\ [][MarksStay /\ OnlyAcceptChanges]_vars

\* the tiler about to reject a candidate, two matches accepted before it
C16_Witness ==
    /\ pc = "mark"
    /\ mi < Len(matches)
    /\ ~Unmarked(matches[mi + 1], pattern_mark, text_mark)
    /\ Len(result) >= 2

\* the loop of mark_strings stands before the first candidate of a
\* non-empty list
FirstCandidate == pc = "mark" /\ mi = 0 /\ matches # <<>>

MarkedCount == Cardinality(MarkedPositions(pattern_mark))
                   + Cardinality(MarkedPositions(text_mark))

\* C17: a tiling pass that starts with a non-empty candidate list accepts
\* at least one match: its first candidate in sorted order is not empty
\* and still fully unmarked, so the pass's first step appends it to the
\* result and marks positions that were free; a tiling pass either
\* increases the number of marked positions or had no candidates.
C17_FirstCandidateAccepted ==
    /\ [](FirstCandidate =>
              /\ matches[1].length > 0
              /\ Unmarked(matches[1], pattern_mark, text_mark))
    /\ [][FirstCandidate =>
              /\ result' = Append(result, matches[1])
              /\ MarkedCount' = MarkedCount + 2 * matches[1].length]_vars

\* a later tiling pass, over inputs partly marked by an earlier one, with
\* more than one candidate
C17_Witness ==
    /\ FirstCandidate
    /\ Positive
    /\ result # <<>>
    /\ Len(matches) >= 2

====
